---- MODULE Spec2Model ----
(***************************************************************************)
(* Document Q&A front end: App (documents, selectedDocument, messages),    *)
(* DocumentUpload (uploading, uploadStatus, onDrop) and ChatInterface      *)
(* (question, isLoading, handleSubmit), with the two HTTP requests they    *)
(* issue, POST /api/upload and POST /api/query, modelled as requests in    *)
(* flight that the server answers with success or failure at any later     *)
(* moment.  Every event handler runs to its first await as one step; the   *)
(* continuation after the await (try rest / catch / finally) is one step.  *)
(* A drop is two steps: the drop event, which the drop zone lets through   *)
(* unless it is disabled, and the later call of onDrop with its files.     *)
(* The question, and the message contents that share a field with it, are *)
(* sequences of UTF-16 code units, so that trim() is computed rather than  *)
(* assumed.                                                                *)
(***************************************************************************)
EXTENDS Integers, Sequences, FiniteSets

VARIABLES
    documents,          \* App: useState([])
    selectedDocument,   \* App: useState(null)
    messages,           \* App: useState([])
    uploading,          \* DocumentUpload: useState(false)
    uploadStatus,       \* DocumentUpload: useState(null)
    question,           \* ChatInterface: useState('')
    isLoading,          \* ChatInterface: useState(false)
    uploadReqs,         \* the POSTs /api/upload in flight, each with onDrop's closure
    pendingDrops,       \* useDropzone: drops past the gate whose files onDrop has not been given yet
    queryReq,           \* the POST /api/query in flight, with handleSubmit's closure
    sent,               \* number of POSTs issued, per endpoint
    accepted,           \* number of handler calls that passed their guard
    handled,            \* number of responses whose continuation has run
    lastEvent,          \* the handler step taken last and its outcome
    index,              \* Vector Index: (chunk sequence index, vector) pairs, in insertion order
    lastSearch          \* Retriever: arguments and result of the last search, or Null

appVars == <<documents, selectedDocument, messages>>
uploadVars == <<uploading, uploadStatus, uploadReqs>>
chatVars == <<question, isLoading, queryReq>>
countVars == <<sent, accepted, handled>>
uiVars == <<documents, selectedDocument, messages, uploading, uploadStatus,
            question, isLoading, uploadReqs, pendingDrops, queryReq, sent,
            accepted, handled, lastEvent>>
searchVars == <<index, lastSearch>>
vars == <<uiVars, searchVars>>

----------------------------------------------------------------------------
(* Bounds of the exploration: how many drops and submissions are accepted. *)
(* Three uploads: two documents can be listed, and the selection changed,  *)
(* while a third upload is in flight.                                      *)
MaxUploads == 3
MaxQueries == 2

(* JavaScript null. *)
Null == [null |-> TRUE]

(* The code units String.prototype.trim removes: WhiteSpace (TAB, VT, FF, *)
(* SP, NBSP, ZWNBSP and the Unicode space separators) and LineTerminator   *)
(* (LF, CR, LS, PS).                                                       *)
Whitespace ==
    {9, 10, 11, 12, 13, 32, 160, 5760} \cup (8192..8202)
        \cup {8232, 8233, 8239, 8287, 12288, 65279}

(* String.prototype.trim: strip leading and trailing whitespace. *)
RECURSIVE trimStart(_)
trimStart(s) ==
    IF s = <<>> THEN <<>>
    ELSE IF Head(s) \in Whitespace THEN trimStart(Tail(s))
    ELSE s

RECURSIVE trimEnd(_)
trimEnd(s) ==
    IF s = <<>> THEN <<>>
    ELSE IF s[Len(s)] \in Whitespace THEN trimEnd(SubSeq(s, 1, Len(s) - 1))
    ELSE s

trim(s) == trimEnd(trimStart(s))

(* Values the text input can be given by onChange. *)
QuestionInputs ==
    { <<>>,                 \* ""
      <<32>>,               \* " "
      <<12, 160>>,          \* form feed, no-break space
      <<97>>,               \* "a"
      <<32, 98, 8232>> }    \* " b" and a line separator

----------------------------------------------------------------------------
(* Files offered to the drop zone. *)
FilePdf == [name |-> "a.pdf", ext |-> ".pdf", type |-> "application/pdf"]
FileTxt == [name |-> "b.txt", ext |-> ".txt", type |-> "text/plain"]
FileExe == [name |-> "c.exe", ext |-> ".exe", type |-> "application/octet-stream"]

DroppedInputs ==
    { <<>>, <<FilePdf>>, <<FileExe>>,
      <<FilePdf, FileTxt>>, <<FileExe, FilePdf>> }

(* useDropzone({accept}): MIME type -> extensions. *)
Accept ==
    [t \in {"application/pdf", "text/markdown", "text/html", "text/plain"} |->
        CASE t = "application/pdf" -> {".pdf"}
          [] t = "text/markdown"   -> {".md"}
          [] t = "text/html"       -> {".html"}
          [] t = "text/plain"      -> {".txt"}]

(* useDropzone({maxFiles}). *)
maxFiles == 1

fileAccepted(f) ==
    \/ f.type \in DOMAIN Accept
    \/ \E t \in DOMAIN Accept : f.ext \in Accept[t]

RECURSIVE filterAccepted(_)
filterAccepted(files) ==
    IF files = <<>> THEN <<>>
    ELSE IF fileAccepted(Head(files))
         THEN <<Head(files)>> \o filterAccepted(Tail(files))
         ELSE filterAccepted(Tail(files))

(* The acceptedFiles argument the drop zone hands to onDrop: the files that *)
(* pass `accept`, or none at all when more than maxFiles pass.              *)
acceptedFiles(files) ==
    LET ok == filterAccepted(files)
    IN  IF Len(ok) > maxFiles THEN <<>> ELSE ok

(* useDropzone({disabled: uploading}). *)
dropzoneDisabled == uploading

----------------------------------------------------------------------------
(* What the server can answer.  The server is not part of the front end.   *)

(* POST /upload success body: Document metadata with a fresh id. *)
uploadResponseData(file, n) == [id |-> n, filename |-> file.name]

(* POST /upload failures as axios rejects them: no response at all, a      *)
(* response without an `error` field, or one with an `error` string.      *)
UploadErrors ==
    { [response |-> FALSE, hasError |-> FALSE, error |-> ""],
      [response |-> TRUE,  hasError |-> FALSE, error |-> ""],
      [response |-> TRUE,  hasError |-> TRUE,  error |-> ""],
      [response |-> TRUE,  hasError |-> TRUE,  error |-> "Empty document"] }

(* POST /query success bodies. *)
Answers == { <<97, 110, 115, 119, 101, 114>> }   \* "answer"

----------------------------------------------------------------------------
(* DocumentUpload *)

DefaultUploadError == "Failed to upload document"

(* Variant: the server's error field is shown without a fallback. *)
uploadErrorMessageNoFallback(error) == error.error

(* error.response?.data?.error || 'Failed to upload document' *)
uploadErrorMessage(error) ==
    IF error.response /\ error.hasError /\ error.error # ""
    THEN error.error
    ELSE DefaultUploadError

(* Variant: the new document is put in front of the list. *)
appendDocumentInFront(prev, document) == <<document>> \o prev

(* Variant: the new document replaces the list. *)
appendDocumentReplacing(prev, document) == <<document>>

(* App.handleDocumentUploaded: setDocuments(prev => [...prev, document]) *)
appendDocument(prev, document) == Append(prev, document)

(* App.handleDocumentUploaded: if (!selectedDocument) setSelectedDocument(document), *)
(* where selectedDocument is the value captured by the closure and current *)
(* the state the update applies to.                                         *)
selectAfterUpload(captured, current, document) ==
    IF captured = Null THEN document ELSE current

(* The sequence s without its i-th element. *)
RemoveAt(s, i) == SubSeq(s, 1, i - 1) \o SubSeq(s, i + 1, Len(s))

(* onDrop up to the await, for the files of one drop.  `captured` is the   *)
(* selectedDocument of the render whose onDrop is called: the request      *)
(* keeps that closure's onDocumentUploaded, and the ordinal of the POST,   *)
(* which the server's answer is derived from.  onDrop does not test        *)
(* `uploading`.                                                            *)
onDrop(files, captured) ==
    LET file == IF acceptedFiles(files) = <<>> THEN Null
                ELSE acceptedFiles(files)[1]
    IN  IF file = Null
        THEN /\ lastEvent' = "drop-ignored"
             /\ UNCHANGED <<appVars, uploadVars, chatVars, countVars>>
        ELSE /\ uploading' = TRUE
             /\ uploadStatus' = Null
             /\ uploadReqs' = Append(uploadReqs,
                                  [file |-> file,
                                   selectedDocument |-> captured,
                                   n |-> sent.upload + 1])
             /\ sent' = [sent EXCEPT !.upload = @ + 1]
             /\ accepted' = [accepted EXCEPT !.drop = @ + 1]
             /\ lastEvent' = "drop-accepted"
             /\ UNCHANGED <<appVars, chatVars, handled>>

(* onDrop after the await of request i resolved: try rest, finally. *)
uploadSucceeds(i) ==
    /\ i \in DOMAIN uploadReqs
    /\ LET req == uploadReqs[i]
           data == uploadResponseData(req.file, req.n)
       IN  /\ uploadStatus' = [type |-> "success",
                               message |-> "Document uploaded successfully!"]
           /\ documents' = appendDocument(documents, data)
           /\ selectedDocument' =
                  selectAfterUpload(req.selectedDocument, selectedDocument, data)
    /\ uploading' = FALSE
    /\ uploadReqs' = RemoveAt(uploadReqs, i)
    /\ handled' = [handled EXCEPT !.upload = @ + 1]
    /\ lastEvent' = "upload-ok"
    /\ UNCHANGED <<messages, chatVars, sent, accepted>>

(* Variant: setUploading(false) is reached on the success path only. *)
uploadFailsStayingBusy(i, error) ==
    /\ i \in DOMAIN uploadReqs
    /\ uploadStatus' = [type |-> "error", message |-> uploadErrorMessage(error)]
    /\ uploadReqs' = RemoveAt(uploadReqs, i)
    /\ handled' = [handled EXCEPT !.upload = @ + 1]
    /\ lastEvent' = "upload-error"
    /\ UNCHANGED <<appVars, chatVars, uploading, sent, accepted>>

(* onDrop after the await of request i rejected: catch, finally. *)
uploadFails(i, error) ==
    /\ i \in DOMAIN uploadReqs
    /\ uploadStatus' = [type |-> "error", message |-> uploadErrorMessage(error)]
    /\ uploading' = FALSE
    /\ uploadReqs' = RemoveAt(uploadReqs, i)
    /\ handled' = [handled EXCEPT !.upload = @ + 1]
    /\ lastEvent' = "upload-error"
    /\ UNCHANGED <<appVars, chatVars, sent, accepted>>

----------------------------------------------------------------------------
(* App / DocumentList *)

Range(s) == { s[i] : i \in DOMAIN s }

(* handleDocumentSelect, called from a DocumentList button. *)
handleDocumentSelect(doc) ==
    /\ doc \in Range(documents)
    /\ selectedDocument' = doc
    /\ messages' = <<>>
    /\ queryReq' = IF queryReq = Null THEN Null
                   ELSE [queryReq EXCEPT !.switched = @ \/ doc # selectedDocument]
    /\ lastEvent' = "select"
    /\ UNCHANGED <<documents, uploadVars, question, isLoading, countVars>>

(* handleNewMessage: setMessages(prev => [...prev, message]) *)
handleNewMessage(prev, message) == Append(prev, message)

----------------------------------------------------------------------------
(* ChatInterface, rendered only while selectedDocument is set. *)

chatMounted == selectedDocument # Null

(* 'Sorry, I encountered an error while processing your question. Please try again.'
   (code units) *)
QueryErrorText ==
    << 83, 111, 114, 114, 121, 44, 32, 73, 32, 101, 110, 99, 111, 117,
       110, 116, 101, 114, 101, 100, 32, 97, 110, 32, 101, 114, 114, 111,
       114, 32, 119, 104, 105, 108, 101, 32, 112, 114, 111, 99, 101, 115,
       115, 105, 110, 103, 32, 121, 111, 117, 114, 32, 113, 117, 101, 115,
       116, 105, 111, 110, 46, 32, 80, 108, 101, 97, 115, 101, 32, 116,
       114, 121, 32, 97, 103, 97, 105, 110, 46 >>

(* Messages carry, besides the fields the code gives them, the document    *)
(* their question was sent for (about) and whether another document was   *)
(* selected between the question and the message (stale).                  *)
userMessage(q, id) ==
    [type |-> "user", content |-> q, error |-> FALSE, about |-> id, stale |-> FALSE]

assistantMessage(answer, req) ==
    [type |-> "assistant", content |-> answer, error |-> FALSE,
     about |-> req.document_id, stale |-> req.switched]

(* Variant: the error reply is not flagged as an error. *)
errorMessageUnflagged(req) ==
    [type |-> "assistant", content |-> QueryErrorText, error |-> FALSE,
     about |-> req.document_id, stale |-> req.switched]

errorMessage(req) ==
    [type |-> "assistant", content |-> QueryErrorText, error |-> TRUE,
     about |-> req.document_id, stale |-> req.switched]

(* <input disabled={isLoading}> *)
inputDisabled == isLoading

(* <button type="submit" disabled={!question.trim() || isLoading}> *)
submitDisabled == trim(question) = <<>> \/ isLoading

(* onChange={(e) => setQuestion(e.target.value)} *)
setQuestion(value) ==
    /\ chatMounted
    /\ ~inputDisabled
    /\ value # question
    /\ question' = value
    /\ lastEvent' = "type"
    /\ UNCHANGED <<appVars, uploadVars, isLoading, queryReq, countVars>>

(* Variant: the question is tested without trim(). *)
submitRejectedUntrimmed(q, loading) == q = <<>> \/ loading

(* if (!question.trim() || isLoading) return *)
submitRejected(q, loading) == trim(q) = <<>> \/ loading

(* handleSubmit up to the await; the form's submit event reaches it whether *)
(* or not the button is enabled.                                            *)
handleSubmit ==
    /\ chatMounted
    /\ IF submitRejected(question, isLoading)
       THEN /\ lastEvent' = "submit-ignored"
            /\ UNCHANGED <<appVars, uploadVars, chatVars, countVars>>
       ELSE /\ messages' = handleNewMessage(messages,
                                userMessage(question, selectedDocument.id))
            /\ question' = <<>>
            /\ isLoading' = TRUE
            /\ queryReq' = [document_id |-> selectedDocument.id,
                            question |-> question, switched |-> FALSE]
            /\ sent' = [sent EXCEPT !.query = @ + 1]
            /\ accepted' = [accepted EXCEPT !.submit = @ + 1]
            /\ lastEvent' = "submit-accepted"
            /\ UNCHANGED <<documents, selectedDocument, uploadVars, handled>>

(* handleSubmit after the await resolved: try rest, finally. *)
querySucceeds(answer) ==
    /\ queryReq # Null
    /\ messages' = handleNewMessage(messages, assistantMessage(answer, queryReq))
    /\ isLoading' = FALSE
    /\ queryReq' = Null
    /\ handled' = [handled EXCEPT !.query = @ + 1]
    /\ lastEvent' = "query-ok"
    /\ UNCHANGED <<documents, selectedDocument, uploadVars, question, sent, accepted>>

(* Variant: the catch block sends the request again instead of giving up. *)
queryFailsRetrying ==
    /\ queryReq # Null
    /\ sent' = [sent EXCEPT !.query = @ + 1]
    /\ lastEvent' = "query-error"
    /\ UNCHANGED <<appVars, uploadVars, chatVars, accepted, handled>>

(* handleSubmit after the await rejected: catch, finally. *)
queryFails ==
    /\ queryReq # Null
    /\ messages' = handleNewMessage(messages, errorMessage(queryReq))
    /\ isLoading' = FALSE
    /\ queryReq' = Null
    /\ handled' = [handled EXCEPT !.query = @ + 1]
    /\ lastEvent' = "query-error"
    /\ UNCHANGED <<documents, selectedDocument, uploadVars, question, sent, accepted>>

----------------------------------------------------------------------------
InitUI ==
    /\ documents = <<>>
    /\ selectedDocument = Null
    /\ messages = <<>>
    /\ uploading = FALSE
    /\ uploadStatus = Null
    /\ question = <<>>
    /\ isLoading = FALSE
    /\ uploadReqs = <<>>
    /\ pendingDrops = <<>>
    /\ queryReq = Null
    /\ sent = [upload |-> 0, query |-> 0]
    /\ accepted = [drop |-> 0, submit |-> 0]
    /\ handled = [upload |-> 0, query |-> 0]
    /\ lastEvent = "mount"

----------------------------------------------------------------------------
(* The steps of the front end: user events and server answers. *)
(* A drop on the drop zone.  useDropzone attaches its drop handler only    *)
(* while `disabled` is false in the current render; the handler reads the  *)
(* dropped files asynchronously, so the drop is kept with the onDrop of    *)
(* that render until the files are there.  Drops are explored while fewer  *)
(* than MaxUploads of them are pending or were accepted.                   *)
dropEvent(files) ==
    /\ pendingDrops' = Append(pendingDrops,
                            [files |-> files, selectedDocument |-> selectedDocument])
    /\ lastEvent' = "drop"
    /\ UNCHANGED <<appVars, uploadVars, chatVars, countVars>>

Drop ==
    /\ ~dropzoneDisabled
    /\ Len(pendingDrops) + accepted.drop < MaxUploads
    /\ \E files \in DroppedInputs : dropEvent(files)
    /\ UNCHANGED searchVars

(* The files of a pending drop were read: useDropzone filters them and     *)
(* calls the onDrop it kept.  `disabled` is not tested again.              *)
DropRead ==
    /\ \E i \in DOMAIN pendingDrops :
          /\ onDrop(pendingDrops[i].files, pendingDrops[i].selectedDocument)
          /\ pendingDrops' = RemoveAt(pendingDrops, i)
    /\ UNCHANGED searchVars
UploadOk ==
    /\ \E i \in DOMAIN uploadReqs : uploadSucceeds(i)
    /\ UNCHANGED <<pendingDrops, searchVars>>
UploadError ==
    /\ \E i \in DOMAIN uploadReqs, error \in UploadErrors : uploadFails(i, error)
    /\ UNCHANGED <<pendingDrops, searchVars>>
Select ==
    /\ \E doc \in Range(documents) : handleDocumentSelect(doc)
    /\ UNCHANGED <<pendingDrops, searchVars>>
Type ==
    /\ \E value \in QuestionInputs : setQuestion(value)
    /\ UNCHANGED <<pendingDrops, searchVars>>
Submit ==
    /\ ~submitRejected(question, isLoading) => accepted.submit < MaxQueries
    /\ handleSubmit
    /\ UNCHANGED <<pendingDrops, searchVars>>
QueryAnswer ==
    /\ \E answer \in Answers : querySucceeds(answer)
    /\ UNCHANGED <<pendingDrops, searchVars>>
QueryError == queryFails /\ UNCHANGED <<pendingDrops, searchVars>>

Next ==
    \/ Drop
    \/ DropRead
    \/ UploadOk
    \/ UploadError
    \/ Select
    \/ Type
    \/ Submit
    \/ QueryAnswer
    \/ QueryError

----------------------------------------------------------------------------
(* Vector Index / Retriever (spec section 4.3).  Vectors are the unit      *)
(* vectors of the plane's axes: they are L2-normalised exactly, so the     *)
(* inner product is the cosine similarity.                                 *)

MaxChunks == 3
MaxK == 4

Vectors == { <<1, 0>>, <<0, 1>>, <<-1, 0>>, <<0, -1>> }

(* Cosine similarity of two unit vectors. *)
similarity(u, v) == u[1] * v[1] + u[2] * v[2]

Min(a, b) == IF a < b THEN a ELSE b

(* Variant: ties are broken by descending sequence index. *)
ranksBeforeLatestFirst(a, b) ==
    \/ a.score > b.score
    \/ a.score = b.score /\ a.chunk > b.chunk

(* a is returned before b: higher score, ties by ascending sequence index. *)
ranksBefore(a, b) ==
    \/ a.score > b.score
    \/ a.score = b.score /\ a.chunk < b.chunk

RECURSIVE ranked(_)
ranked(hits) ==
    IF hits = {} THEN <<>>
    ELSE LET first == CHOOSE a \in hits : \A b \in hits \ {a} : ranksBefore(a, b)
         IN  <<first>> \o ranked(hits \ {first})

(* k is clamped to the number of chunks available. *)
clamp(k, n) == Min(k, n)

(* search(query_vector, k) -> Retrieval Result *)
search(idx, q, k) ==
    LET hits == { [chunk |-> idx[i].chunk, score |-> similarity(idx[i].vector, q)] :
                    i \in DOMAIN idx }
    IN  SubSeq(ranked(hits), 1, clamp(k, Len(idx)))

(* insert(chunk_id, vector): chunks arrive in sequence order. *)
insert(v) ==
    /\ Len(index) < MaxChunks
    /\ index' = Append(index, [chunk |-> Len(index), vector |-> v])
    /\ UNCHANGED lastSearch

doSearch(q, k) ==
    /\ lastSearch' = [query |-> q, k |-> k, chunks |-> Len(index),
                      results |-> search(index, q, k)]
    /\ UNCHANGED index

InitSearch ==
    /\ index = <<>>
    /\ lastSearch = Null

Insert == (\E v \in Vectors : insert(v)) /\ UNCHANGED uiVars
Search == (\E q \in Vectors, k \in 0..MaxK : doSearch(q, k)) /\ UNCHANGED uiVars

NextSearch ==
    \/ Insert
    \/ Search

----------------------------------------------------------------------------
Init == InitUI /\ InitSearch

(* The front end with its two requests. *)
Spec == Init /\ [][Next]_vars

(* The retriever alone, on every index content within the bounds. *)
SearchSpec == Init /\ [][NextSearch]_vars

----------------------------------------------------------------------------
(* Properties *)

IsPrefix(s, t) == Len(s) <= Len(t) /\ SubSeq(t, 1, Len(s)) = s

(* The message the claim C1 expects for a failed upload: the server's      *)
(* `error` string whenever the response carries one.                       *)
claimedUploadMessage(error) ==
    IF error.response /\ error.hasError THEN error.error ELSE DefaultUploadError

(* The same with the fallback also taken for an empty `error` string. *)
amendedUploadMessage(error) ==
    IF error.response /\ error.hasError /\ error.error # "" THEN error.error
    ELSE DefaultUploadError

(* C1, as stated: a failed POST /upload publishes nothing (documents and   *)
(* selectedDocument keep their values) and sets uploadStatus to an error   *)
(* whose message is the server's `error` string when the response carries  *)
(* one and 'Failed to upload document' otherwise.                          *)
C1_FailedUploadShowsServerError ==
    [][\A i \in DOMAIN uploadReqs, error \in UploadErrors :
          uploadFails(i, error) =>
              /\ documents' = documents
              /\ selectedDocument' = selectedDocument
              /\ uploadStatus' = [type |-> "error",
                                  message |-> claimedUploadMessage(error)]]_vars

(* C1, amended: a failed POST /upload publishes nothing and sets            *)
(* uploadStatus to an error whose message is the server's `error` string   *)
(* when the response carries a non-empty one, and 'Failed to upload        *)
(* document' otherwise (no response, no `error` field, or an empty one).   *)
C1_FailedUploadPublishesNothing ==
    [][\A i \in DOMAIN uploadReqs, error \in UploadErrors :
          uploadFails(i, error) =>
              /\ documents' = documents
              /\ selectedDocument' = selectedDocument
              /\ uploadStatus' = [type |-> "error",
                                  message |-> amendedUploadMessage(error)]]_vars

(* C1 witness: an upload has failed with the server's own message while a  *)
(* document was already listed and selected.                               *)
C1_Witness ==
    /\ lastEvent = "upload-error"
    /\ uploadStatus = [type |-> "error", message |-> "Empty document"]
    /\ Len(documents) = 1
    /\ selectedDocument = documents[1]

(* C2: every step leaves the documents list unchanged or appends, at the   *)
(* end, the metadata returned by the upload that completes successfully in *)
(* that step; nothing is listed for an upload still in flight.             *)
C2_DocumentsAppendOnly ==
    /\ [](Len(documents) <= handled.upload)
    /\ [][\/ documents' = documents
          \/ /\ lastEvent' = "upload-ok"
             /\ \E i \in DOMAIN uploadReqs :
                   /\ uploadReqs' = RemoveAt(uploadReqs, i)
                   /\ documents' = Append(documents,
                          uploadResponseData(uploadReqs[i].file, uploadReqs[i].n))]_vars

(* C2 witness: a second document has been appended behind the first. *)
C2_Witness ==
    /\ lastEvent = "upload-ok"
    /\ Len(documents) = 2
    /\ documents[1].id = 1
    /\ documents[2].id = 2

(* C3: a failed POST /query appends one assistant message with error true  *)
(* to the transcript and leaves documents and selectedDocument unchanged.  *)
C3_FailedQueryAppendsError ==
    [][(queryReq # Null /\ lastEvent' = "query-error") =>
          /\ Len(messages') = Len(messages) + 1
          /\ IsPrefix(messages, messages')
          /\ messages'[Len(messages')].type = "assistant"
          /\ messages'[Len(messages')].error = TRUE
          /\ documents' = documents
          /\ selectedDocument' = selectedDocument]_vars

(* C3 witness: the transcript ends with the error reply to a question. *)
C3_Witness ==
    /\ lastEvent = "query-error"
    /\ Len(messages) = 2
    /\ messages[1].type = "user"
    /\ messages[2].error
    /\ Len(documents) = 2

InFlight(req) == IF req = Null THEN 0 ELSE 1

(* C4: no automatic retries.  Every accepted submission has issued exactly *)
(* one POST /query and every accepted drop exactly one POST /upload; every *)
(* request is either still in flight or has been handled exactly once (a   *)
(* query by one assistant message); and a POST is issued only in a step    *)
(* where the user drops or submits.                                        *)
C4_NoAutomaticRetries ==
    /\ [](/\ sent.query = accepted.submit
          /\ sent.upload = accepted.drop
          /\ sent.query = handled.query + InFlight(queryReq)
          /\ sent.upload = handled.upload + Len(uploadReqs))
    /\ [][/\ sent'.query # sent.query => lastEvent' = "submit-accepted"
          /\ sent'.upload # sent.upload => lastEvent' = "drop-accepted"
          /\ handled'.query # handled.query =>
                /\ handled'.query = handled.query + 1
                /\ Len(messages') = Len(messages) + 1
                /\ messages'[Len(messages')].type = "assistant"]_vars

(* C4 witness: a query failed, the user asked again, and the second        *)
(* request was answered.                                                   *)
C4_Witness ==
    /\ lastEvent = "query-ok"
    /\ sent.query = 2
    /\ Len(messages) = 4
    /\ messages[2].error
    /\ ~messages[4].error

(* C5: the step that handles the completion of a request, successful or    *)
(* not, resets that request's busy flag, leaving the drop zone and the     *)
(* form enabled; and an accepted drop or submission starts from the same   *)
(* state whether or not an earlier request failed: busy flag set, status   *)
(* cleared, its request in flight.                                         *)
C5_FailureDoesNotBlockLaterRequests ==
    /\ [][/\ (uploadReqs # <<>> /\ lastEvent' \in {"upload-ok", "upload-error"}) =>
                /\ uploading' = FALSE
                /\ \E i \in DOMAIN uploadReqs : uploadReqs' = RemoveAt(uploadReqs, i)
          /\ (queryReq # Null /\ lastEvent' \in {"query-ok", "query-error"}) =>
                isLoading' = FALSE /\ queryReq' = Null
          /\ sent'.upload = sent.upload + 1 =>
                uploading' /\ uploadStatus' = Null /\ uploadReqs' # <<>>
          /\ sent'.query = sent.query + 1 =>
                isLoading' /\ queryReq' # Null]_vars
    /\ [](lastEvent \in {"upload-ok", "upload-error"} => ~dropzoneDisabled)
    /\ [](lastEvent \in {"query-ok", "query-error"} =>
             ~submitRejected(<<97>>, isLoading))

(* C5 witness: an upload failed and the next one succeeded, then a query   *)
(* failed and the next one was answered; both busy flags are reset.        *)
C5_Witness ==
    /\ lastEvent = "query-ok"
    /\ handled.upload = 2
    /\ Len(documents) = 1
    /\ Len(messages) = 4
    /\ messages[2].error
    /\ ~messages[4].error
    /\ ~uploading
    /\ ~isLoading

(* C6: selectedDocument is null or an entry of the documents list, and the *)
(* document_id of the POST /query in flight is the id of a listed          *)
(* document, that is, of one returned by a successful upload.              *)
C6_OnlyKnownDocuments ==
    /\ selectedDocument = Null \/ selectedDocument \in Range(documents)
    /\ queryReq # Null =>
          queryReq.document_id \in { d.id : d \in Range(documents) }

(* C6 witness: a query is in flight for the second of two documents. *)
C6_Witness ==
    /\ queryReq # Null
    /\ Len(documents) = 2
    /\ queryReq.document_id = documents[2].id
    /\ selectedDocument = documents[2]

(* C7: the transcript is empty right after handleDocumentSelect, and every *)
(* message in it belongs to a question asked about the currently selected  *)
(* document since that document was last selected (here: with no other    *)
(* document selected between the question and the message), also when the  *)
(* reply to a query in flight at the moment of the switch arrives later.   *)
C7_TranscriptOfCurrentSelection ==
    /\ lastEvent = "select" => messages = <<>>
    /\ \A i \in DOMAIN messages :
          /\ selectedDocument # Null
          /\ messages[i].about = selectedDocument.id
          /\ ~messages[i].stale

(* C8: search returns at most min(k, number_of_chunks) results, none for   *)
(* an empty index, in order of non-increasing score, results of equal      *)
(* score in order of ascending chunk sequence index; every result is a     *)
(* chunk of the index with its similarity to the query.                    *)
C8_SearchResultOrdered ==
    lastSearch # Null =>
        LET r == lastSearch.results
        IN  /\ Len(r) <= lastSearch.k
            /\ Len(r) <= lastSearch.chunks
            /\ lastSearch.chunks = 0 => r = <<>>
            /\ \A i \in DOMAIN r :
                  /\ r[i].chunk \in 0..(lastSearch.chunks - 1)
                  /\ r[i].score =
                        similarity(index[r[i].chunk + 1].vector, lastSearch.query)
            /\ \A i, j \in DOMAIN r :
                  i < j =>
                     \/ r[i].score > r[j].score
                     \/ r[i].score = r[j].score /\ r[i].chunk < r[j].chunk

(* C8 witness: a search with k above the number of chunks returned all     *)
(* three chunks, two of them with equal score.                             *)
C8_Witness ==
    /\ lastSearch # Null
    /\ lastSearch.k > lastSearch.chunks
    /\ Len(lastSearch.results) = 3
    /\ lastSearch.results[1].score > lastSearch.results[2].score
    /\ lastSearch.results[2].score = lastSearch.results[3].score

Blank(q) == \A i \in DOMAIN q : q[i] \in Whitespace

(* C9: at most one query is in flight, isLoading is true exactly while a   *)
(* request is in flight, the question of a request in flight is not blank, *)
(* and a submit event with a blank question or with isLoading true appends *)
(* no message, sends no request and changes no state of the components.    *)
C9_OneQueryNoBlankQuestions ==
    /\ [](/\ sent.query - handled.query \in {0, 1}
          /\ isLoading <=> (sent.query - handled.query = 1)
          /\ isLoading <=> (queryReq # Null)
          /\ queryReq # Null => ~Blank(queryReq.question))
    /\ [][(lastEvent' \in {"submit-ignored", "submit-accepted"}
              /\ (Blank(question) \/ isLoading)) =>
             UNCHANGED <<appVars, uploadVars, chatVars, countVars>>]_vars

(* C9 witness: a submit event arrived with a question of a form feed and a *)
(* no-break space and was ignored.                                         *)
C9_Witness ==
    /\ lastEvent = "submit-ignored"
    /\ question = <<12, 160>>
    /\ ~isLoading
    /\ messages = <<>>
    /\ sent.query = 0

(* C10: at most one upload is in flight, uploading is true exactly while a *)
(* request is in flight, no drop gets past the drop zone while uploading   *)
(* is true, and a drop with no accepted file sends no request and changes  *)
(* no state of the components.                                             *)
C10_OneUploadAtATime ==
    /\ [](/\ sent.upload - handled.upload \in {0, 1}
          /\ uploading <=> (sent.upload - handled.upload = 1)
          /\ uploading <=> (uploadReqs # <<>>)
          /\ Len(uploadReqs) <= 1)
    /\ [][/\ lastEvent' = "drop" => ~uploading
          /\ lastEvent' = "drop-ignored" =>
                UNCHANGED <<appVars, uploadVars, chatVars, countVars>>]_vars

(* C11: the step that completes an upload successfully selects the         *)
(* uploaded document if selectedDocument is null at that moment and leaves *)
(* selectedDocument unchanged otherwise, and leaves the transcript         *)
(* unchanged, whatever happened while the upload was in flight (the        *)
(* handler tests the selectedDocument of the render whose onDrop started   *)
(* the upload).                                                            *)
C11_UploadSelectsOnlyWhenNoneSelected ==
    [][(uploadReqs # <<>> /\ lastEvent' = "upload-ok") =>
          /\ Len(documents') = Len(documents) + 1
          /\ selectedDocument' =
                IF selectedDocument = Null THEN documents'[Len(documents')]
                ELSE selectedDocument
          /\ messages' = messages]_vars

====
